---------------------------- MODULE Spec2Model ----------------------------
(* Model of cm_api/endpoints/role_config_groups.py: the role config group  *)
(* client.  Callers invoke the module functions and the ApiRoleConfigGroup *)
(* methods; each invocation builds one request, hands it to the injected   *)
(* transport (resource_root) and decodes what the transport returns.       *)
EXTENDS Integers, Sequences, FiniteSets, TLC

VARIABLES pc, inv, req, calls, resp, out, obj, store, created

vars == <<pc, inv, req, calls, resp, out, obj, store, created>>

(* ------------------------------------------------------------------ *)
(* Python values.  A value that may be None is tagged, so that None,   *)
(* the empty string and the string "None" stay three different values. *)
(* ------------------------------------------------------------------ *)
None == [py |-> "None"]

Str(s) == [py |-> "str", s |-> s]

Bool(b) == [py |-> "bool", b |-> b]

\* Python truth value of None or a str: `if cluster_name:`.
Truthy(v) == v # None /\ v # Str("")

\* "%s" % v for None or a str.
Fmt(v) == IF v = None THEN "None" ELSE v.s

(* ------------------------------------------------------------------ *)
(* Bounds and input sets.                                              *)
(* ------------------------------------------------------------------ *)
\* Role-name lists and role responses are drawn from the first MaxRoles roles.
MaxRoles == 2

\* Lists handed to create_role_config_groups hold at most MaxGroups groups.
MaxGroups == 1

Callers == {"a", "b"}

RolePool == <<"r1", "r2", "r3", "r4">>

GroupPool == <<"g1", "g2", "g3">>

NotFound == "HTTP404"

ConfigKeys == <<"k", "k2", "k3">>

(* ------------------------------------------------------------------ *)
(* Path resolution.                                                    *)
(* ------------------------------------------------------------------ *)
ROLE_CONFIG_GROUPS_PATH(c, s) ==
  "/clusters/" \o c \o "/services/" \o s \o "/roleConfigGroups"

CM_ROLE_CONFIG_GROUPS_PATH == "/cm/service/roleConfigGroups"

\* A slip in the test of cluster_name: only None selects the fixed path.
Mut_groups_path_none_only(cluster_name, service_name) ==
  IF cluster_name # None
    THEN ROLE_CONFIG_GROUPS_PATH(Fmt(cluster_name), Fmt(service_name))
    ELSE CM_ROLE_CONFIG_GROUPS_PATH

_get_role_config_groups_path(cluster_name, service_name) ==
  IF Truthy(cluster_name)
    THEN ROLE_CONFIG_GROUPS_PATH(Fmt(cluster_name), Fmt(service_name))
    ELSE CM_ROLE_CONFIG_GROUPS_PATH

_get_role_config_group_path(cluster_name, service_name, name) ==
  _get_role_config_groups_path(cluster_name, service_name) \o "/" \o Fmt(name)


(* ------------------------------------------------------------------ *)
(* Wire format and typed objects (cm_api.endpoints.types, roles).      *)
(* ------------------------------------------------------------------ *)
\* json.dumps: the text of a JSON value; the transport reads it back.
json_dumps(v) == [json |-> v]

json_loads(text) == text.json

\* dict.get(key): the value, or None when the key is absent.
Get(dic, key) == IF key \in DOMAIN dic THEN dic[key] ELSE None

LIST_KEY == "items"

RO_ATTR == {"base", "serviceRef"}

RW_ATTR == {"name", "displayName", "roleType", "config"}

\* ApiRoleConfigGroup.__init__: only the read-write attributes are set.
ApiRoleConfigGroup(name, displayName, roleType, config) ==
  [name |-> name, displayName |-> displayName, roleType |-> roleType,
   config |-> config]

\* BaseApiObject.to_json_dict: the read-write attributes of the object.
to_json_dict(o) == [a \in RW_ATTR |-> o[a]]

\* BaseApiObject.from_json_dict for ApiRoleConfigGroup: the read-write
\* attributes go through the constructor (config defaults to None), the
\* read-only ones start as None and are then set from the response.
Group_from_json_dict(dic) ==
  [name |-> dic.name, displayName |-> dic.displayName,
   roleType |-> dic.roleType, config |-> Get(dic, "config"),
   base |-> Get(dic, "base"), serviceRef |-> Get(dic, "serviceRef")]

\* ApiRole.from_json_dict.
ApiRole_from_json_dict(dic) ==
  [cls |-> "ApiRole", name |-> dic.name, type |-> Get(dic, "type")]

\* ApiList(objects).to_json_dict().
ApiList_to_json_dict(objects) ==
  (LIST_KEY :> [i \in DOMAIN objects |-> to_json_dict(objects[i])])

\* member_cls.from_json_dict(dic, resource_root).
from_json_dict(member_cls, dic) ==
  IF member_cls = "ApiRole" THEN ApiRole_from_json_dict(dic)
                            ELSE Group_from_json_dict(dic)

\* ApiList.from_json_dict(member_cls, dic, resource_root).
ApiList_from_json_dict(member_cls, dic) ==
  [i \in DOMAIN dic[LIST_KEY] |-> from_json_dict(member_cls, dic[LIST_KEY][i])]

\* The keys of a config mapping, in the order the dict yields them.
KeysOf(config) == SelectSeq(ConfigKeys, LAMBDA k : k \in DOMAIN config)

\* config_to_json: {"items": [{"name": k, "value": v}, ...]} as JSON text.
config_to_json(config) ==
  json_dumps(
    (LIST_KEY :> [i \in DOMAIN KeysOf(config) |->
                    [name |-> KeysOf(config)[i],
                     value |-> config[KeysOf(config)[i]]]]))

\* ApiConfig.from_json_dict: the structured config object of the full view.
ApiConfig_from_json_dict(entry) ==
  [cls |-> "ApiConfig", name |-> entry.name, value |-> Get(entry, "value"),
   default |-> Get(entry, "default")]

\* json_to_config(dic, full): a later item overrides an earlier one.
RECURSIVE ConfigOfItems(_, _)
ConfigOfItems(items, full) ==
  IF items = <<>> THEN <<>>
  ELSE LET n     == Len(items)
           entry == items[n]
           v     == IF full THEN ApiConfig_from_json_dict(entry)
                            ELSE Get(entry, "value")
       IN  (entry.name :> v) @@ ConfigOfItems(SubSeq(items, 1, n - 1), full)

json_to_config(dic, full) == ConfigOfItems(dic[LIST_KEY], full)

(* ------------------------------------------------------------------ *)
(* Requests and results of the module functions and entity methods.    *)
(* ------------------------------------------------------------------ *)
\* One call on the injected transport: resource_root.<verb>(path, ...).
Request(verb, path, params, data) ==
  [verb |-> verb, path |-> path, params |-> params, data |-> data]

Return(v) == [kind |-> "return", val |-> v]

Raise(e) == [kind |-> "raise", err |-> e]

create_role_config_groups_request(service_name, apigroup_list, cluster_name) ==
  Request("POST", _get_role_config_groups_path(cluster_name, service_name),
          None, json_dumps(ApiList_to_json_dict(apigroup_list)))

create_role_config_groups_return(body) ==
  Return(ApiList_from_json_dict("ApiRoleConfigGroup", body))

\* ApiList([apigroup]) of the freshly constructed group, posted as a batch.
\* A slip in the constructor call: display name and role type swapped.
Mut_create_swapped(service_name, name, display_name, role_type, cluster_name) ==
  create_role_config_groups_request(service_name,
    <<ApiRoleConfigGroup(name, role_type, display_name, None)>>, cluster_name)

create_role_config_group_request(service_name, name, display_name, role_type, cluster_name) ==
  create_role_config_groups_request(service_name,
    <<ApiRoleConfigGroup(name, display_name, role_type, None)>>, cluster_name)

\* create_role_config_groups(...)[0]: an empty list has no element 0.
create_role_config_group_return(body) ==
  LET created_list == create_role_config_groups_return(body).val
  IN  IF Len(created_list) = 0 THEN Raise("IndexError")
                               ELSE Return(created_list[1])

_get_role_config_group_request(path) == Request("GET", path, None, None)

_get_role_config_group_return(body) ==
  Return(from_json_dict("ApiRoleConfigGroup", body))

get_role_config_group_request(service_name, name, cluster_name) ==
  _get_role_config_group_request(
    _get_role_config_group_path(cluster_name, service_name, name))

get_all_role_config_groups_request(service_name, cluster_name) ==
  Request("GET", _get_role_config_groups_path(cluster_name, service_name),
          None, None)

get_all_role_config_groups_return(body) ==
  Return(ApiList_from_json_dict("ApiRoleConfigGroup", body))

\* A slip in the path: the name inside the supplied group, not the argument.
Mut_update_path_from_group(service_name, name, apigroup, cluster_name) ==
  Request("PUT",
          _get_role_config_group_path(cluster_name, service_name, apigroup.name),
          None, json_dumps(to_json_dict(apigroup)))

update_role_config_group_request(service_name, name, apigroup, cluster_name) ==
  Request("PUT", _get_role_config_group_path(cluster_name, service_name, name),
          None, json_dumps(to_json_dict(apigroup)))

update_role_config_group_return(body) ==
  Return(from_json_dict("ApiRoleConfigGroup", body))

delete_role_config_group_request(service_name, name, cluster_name) ==
  Request("DELETE",
          _get_role_config_group_path(cluster_name, service_name, name),
          None, None)

\* A delete that returns nothing.
Mut_delete_returns_none(body) == Return(None)

delete_role_config_group_return(body) ==
  Return(from_json_dict("ApiRoleConfigGroup", body))

move_roles_request(service_name, name, role_names, cluster_name) ==
  Request("PUT",
          _get_role_config_group_path(cluster_name, service_name, name)
            \o "/roles",
          None, json_dumps((LIST_KEY :> role_names)))

\* A move that keeps only the first role of the answer.
Mut_move_roles_return_first(body) ==
  LET moved == ApiList_from_json_dict("ApiRole", body)
  IN  Return(SubSeq(moved, 1, IF Len(moved) = 0 THEN 0 ELSE 1))

move_roles_return(body) ==
  Return(ApiList_from_json_dict("ApiRole", body))

move_roles_to_base_role_config_group_request(service_name, role_names, cluster_name) ==
  Request("PUT",
          _get_role_config_groups_path(cluster_name, service_name) \o "/roles",
          None, json_dumps((LIST_KEY :> role_names)))

move_roles_to_base_role_config_group_return(body) ==
  Return(ApiList_from_json_dict("ApiRole", body))

\* ApiRoleConfigGroup._path: reads self.serviceRef.clusterName, so it is
\* defined only for an instance whose serviceRef is set.
_path(self) ==
  _get_role_config_group_path(self.serviceRef.clusterName,
                              self.serviceRef.serviceName, self.name)

\* params = view and dict(view=view) or None
get_config_request(self, view) ==
  Request("GET", _path(self) \o "/config",
          IF Truthy(view) THEN [view |-> view] ELSE None, None)

\* json_to_config(resp, view == 'full')
\* A slip in the decode flag: structured values for every named view.
Mut_get_config_return_any_view(view, body) ==
  Return(json_to_config(body, view # None))

get_config_return(view, body) == Return(json_to_config(body, view = Str("full")))

\* An update that sends the instance's own config along with the argument.
Mut_update_config_request_merged(self, config) ==
  Request("PUT", _path(self) \o "/config", None,
          config_to_json(IF self.config = None THEN config
                         ELSE config @@ json_to_config(self.config, FALSE)))

update_config_request(self, config) ==
  Request("PUT", _path(self) \o "/config", None, config_to_json(config))

update_config_return(body) == Return(json_to_config(body, FALSE))

get_all_roles_request(self) ==
  Request("GET", _path(self) \o "/roles", None, None)

get_all_roles_return(body) ==
  Return(ApiList_from_json_dict("ApiRole", body))

\* ApiRoleConfigGroup.move_roles: the module function, on the instance's own
\* service, name and cluster.
entity_move_roles_request(self, roles) ==
  move_roles_request(self.serviceRef.serviceName, self.name, roles,
                     self.serviceRef.clusterName)

(* ------------------------------------------------------------------ *)
(* The injected transport: a server that keeps the groups posted to it *)
(* and serves them back by path; role and config sub-resources answer  *)
(* with one of a few fixture bodies.  Any call may fail.               *)
(* ------------------------------------------------------------------ *)
KnownCollections ==
  {"/cm/service/roleConfigGroups",
   "/clusters/default/services/hdfs/roleConfigGroups"}

StoreNames == {GroupPool[i] : i \in DOMAIN GroupPool}

StoreKeys == KnownCollections \X StoreNames

PathOf(key) == key[1] \o "/" \o key[2]

KeysAt(path) == {key \in StoreKeys : PathOf(key) = path}

\* The groups the server holds before any client call.
ServerGroup(cluster, service) ==
  [name |-> Str("g1"), displayName |-> Str("DataNode Default Group"),
   roleType |-> Str("DATANODE"),
   config |-> (LIST_KEY :> <<[name |-> "k3", value |-> Str("z")]>>),
   base |-> Bool(TRUE),
   serviceRef |-> [clusterName |-> cluster, serviceName |-> service]]

InitialStore ==
  (<<"/clusters/default/services/hdfs/roleConfigGroups", "g1">>
     :> ServerGroup(Str("default"), Str("hdfs")))
  @@ (<<"/cm/service/roleConfigGroups", "g1">>
     :> ServerGroup(None, Str("mgmt")))

\* Ordered sub-lists of the first n elements of a pool.
RECURSIVE SubLists(_, _)
SubLists(pool, n) ==
  IF n = 0 THEN {<<>>}
  ELSE LET rest == SubLists(pool, n - 1)
       IN  rest \cup {Append(l, pool[n]) : l \in rest}

RoleJson(r) == [name |-> r, type |-> "DATANODE"]

RoleBody(l) == (LIST_KEY :> [i \in DOMAIN l |-> RoleJson(l[i])])

SummaryBody == (LIST_KEY :> <<[name |-> "k", value |-> Str("v")]>>)

FullBody ==
  (LIST_KEY :> <<[name |-> "k", value |-> Str("v2"), default |-> Str("v")],
                 [name |-> "k2"]>>)

\* The groups of a collection, in name order.
GroupsIn(st, coll) ==
  LET names == SelectSeq(GroupPool, LAMBDA n : <<coll, n>> \in DOMAIN st)
  IN  [i \in DOMAIN names |-> st[<<coll, names[i]>>]]

\* The store after a batch of posted groups.
RECURSIVE StoreAll(_, _, _)
StoreAll(st, coll, items) ==
  IF items = <<>> THEN st
  ELSE LET n == Len(items)
       IN  (<<coll, Fmt(items[n].name)>> :> items[n])
             @@ StoreAll(st, coll, SubSeq(items, 1, n - 1))

Without(st, key) == [x \in DOMAIN st \ {key} |-> st[x]]

Answer(body, st) == [ok |-> TRUE, body |-> body, store |-> st]

Refuse(e) == [ok |-> FALSE, err |-> e]

\* What the server does with request r when it holds st: the set of its
\* possible outcomes.
Handle(r, st, D) ==
  LET p     == r.path
      keys  == KeysAt(p)
      key   == CHOOSE x \in keys : TRUE
      rolesOf  == {x \in DOMAIN st : PathOf(x) \o "/roles" = p}
      configOf == {x \in DOMAIN st : PathOf(x) \o "/config" = p}
      baseOf   == {c \in KnownCollections : c \o "/roles" = p}
  IN  IF r.verb = "POST" /\ p \in KnownCollections
        THEN LET items == json_loads(r.data)[LIST_KEY]
             IN  IF \A i \in DOMAIN items :
                      /\ items[i].name # None
                      /\ items[i].name.s \in StoreNames
                   THEN {Answer((LIST_KEY :> items), StoreAll(st, p, items))}
                   ELSE {Refuse("HTTP400")}
      ELSE IF r.verb = "GET" /\ p \in KnownCollections
        THEN {Answer((LIST_KEY :> GroupsIn(st, p)), st)}
      ELSE IF keys # {} /\ key \in DOMAIN st /\ r.verb = "GET"
        THEN {Answer(st[key], st)}
      ELSE IF keys # {} /\ key \in DOMAIN st /\ r.verb = "PUT"
        THEN LET now == json_loads(r.data) @@ st[key]
             IN  {Answer(now, (key :> now) @@ st)}
      ELSE IF keys # {} /\ key \in DOMAIN st /\ r.verb = "DELETE"
        THEN {Answer(st[key], Without(st, key))}
      ELSE IF r.verb = "PUT" /\ (rolesOf # {} \/ baseOf # {})
        THEN {Answer(b, st) : b \in D.roleBodies}
      ELSE IF r.verb = "GET" /\ rolesOf # {}
        THEN {Answer(b, st) : b \in D.roleBodies}
      ELSE IF r.verb \in {"GET", "PUT"} /\ configOf # {}
        THEN {Answer(b, st) : b \in D.configBodies}
      ELSE {Refuse(NotFound)}

(* ------------------------------------------------------------------ *)
(* Callers.  pc[k] is idle, waiting (the request is with the           *)
(* transport) or done (the invocation has returned or raised).         *)
(* ------------------------------------------------------------------ *)
\* The groups a caller puts in a batch.
NewGroup(i) ==
  ApiRoleConfigGroup(Str(GroupPool[i]), Str("batch"), Str("NAMENODE"), None)

\* The group a caller passes to update: its name is not the name argument.
UpdatedGroup ==
  ApiRoleConfigGroup(Str("g2"), Str("renamed"), Str("DATANODE"), None)

\* The inputs of a run with one caller: what callers pass, and what the
\* transport may answer on the role and config sub-resources.
MainInputs ==
  [clusters     |-> {None, Str(""), Str("default")},
   services     |-> {Str("hdfs")},
   names        |-> {Str("g1")},
   displayNames |-> {Str("DN group")},
   roleTypes    |-> {Str("DATANODE")},
   groupLists   |-> {[i \in 1..n |-> NewGroup(i)] : n \in 0..MaxGroups},
   updated      |-> {UpdatedGroup},
   roleLists    |-> {SubSeq(RolePool, 1, n) : n \in 1..MaxRoles},
   views        |-> {None, Str(""), Str("summary"), Str("full")},
   configs      |-> {("k" :> Str("v2")), ("k2" :> Str("w") @@ "k" :> Str("v2"))},
   roleBodies   |-> {RoleBody(l) : l \in SubLists(RolePool, MaxRoles)},
   configBodies |-> {SummaryBody, FullBody},
   errors       |-> {"HTTP500", "Timeout"}]

\* More clusters, services and names, for the two fetch functions.
WideInputs ==
  [MainInputs EXCEPT
     !.clusters = {None, Str(""), Str("default"), Str("c1")},
     !.services = {Str("hdfs"), Str("mgmt")},
     !.names    = {Str("g1"), Str("g2")}]

\* The narrower inputs of a run with two concurrent callers.
ConcurrentInputs ==
  [clusters     |-> {Str("default")},
   services     |-> {Str("hdfs")},
   names        |-> {Str("g1")},
   displayNames |-> {Str("DN group")},
   roleTypes    |-> {Str("DATANODE")},
   groupLists   |-> {<<NewGroup(2)>>},
   updated      |-> {UpdatedGroup},
   roleLists    |-> {<<"r1", "r2">>},
   views        |-> {Str("full")},
   configs      |-> {("k" :> Str("v2"))},
   roleBodies   |-> {RoleBody(<<"r1">>), RoleBody(<<"r1", "r2">>)},
   configBodies |-> {SummaryBody, FullBody},
   errors       |-> {"HTTP500"}]

Invocation(op, self, cluster, service, name, arg) ==
  [op |-> op, self |-> self, cluster |-> cluster, service |-> service,
   name |-> name, arg |-> arg]

ModuleOps ==
  {"create_role_config_groups", "create_role_config_group",
   "get_role_config_group", "get_all_role_config_groups",
   "update_role_config_group", "delete_role_config_group", "move_roles",
   "move_roles_to_base_role_config_group"}

EntityOps ==
  {"get_config", "update_config", "get_all_roles", "entity_move_roles"}

\* The module functions that return one group, which the caller then holds.
GroupOps ==
  {"create_role_config_group", "get_role_config_group",
   "update_role_config_group", "delete_role_config_group"}

Init ==
  /\ pc = [k \in Callers |-> "idle"]
  /\ inv = [k \in Callers |-> None]
  /\ req = [k \in Callers |-> None]
  /\ calls = [k \in Callers |-> 0]
  /\ resp = [k \in Callers |-> None]
  /\ out = [k \in Callers |-> None]
  /\ obj = [k \in Callers |-> None]
  /\ store = InitialStore
  /\ created = {}

\* A function is entered and reaches its transport call with request r.
Send(k, i, r) ==
  /\ pc[k] # "waiting"
  /\ pc' = [pc EXCEPT ![k] = "waiting"]
  /\ inv' = [inv EXCEPT ![k] = i]
  /\ req' = [req EXCEPT ![k] = r]
  /\ calls' = [calls EXCEPT ![k] = 1]
  /\ resp' = [resp EXCEPT ![k] = None]
  /\ out' = [out EXCEPT ![k] = None]
  /\ UNCHANGED <<store, created>>

\* A method fails before it reaches the transport.
RaiseLocally(k, i, e) ==
  /\ pc[k] # "waiting"
  /\ pc' = [pc EXCEPT ![k] = "done"]
  /\ inv' = [inv EXCEPT ![k] = i]
  /\ req' = [req EXCEPT ![k] = None]
  /\ calls' = [calls EXCEPT ![k] = 0]
  /\ resp' = [resp EXCEPT ![k] = None]
  /\ out' = [out EXCEPT ![k] = Raise(e)]
  /\ UNCHANGED <<store, created, obj>>

\* A caller that calls a module function lets go of the group it held.
ModuleCall(k, i, r) == Send(k, i, r) /\ obj' = [obj EXCEPT ![k] = None]

\* A method of the group the caller holds; self.serviceRef is None on a
\* group whose response carried no serviceRef.
EntityCall(k, i, r) ==
  /\ obj[k] # None
  /\ IF obj[k].serviceRef = None
       THEN RaiseLocally(k, i, "AttributeError")
       ELSE Send(k, i, r) /\ UNCHANGED obj

\* ApiRoleConfigGroup(resource_root, name, displayName, roleType): a group a
\* caller builds itself; its read-only attributes are not set.
ApiRoleConfigGroup_init(k, D) ==
  \E n \in D.names, d \in D.displayNames, t \in D.roleTypes :
    /\ pc[k] # "waiting"
    /\ pc' = [pc EXCEPT ![k] = "done"]
    /\ inv' = [inv EXCEPT ![k] = Invocation("__init__", None, None, None, n,
                                            [displayName |-> d, roleType |-> t])]
    /\ req' = [req EXCEPT ![k] = None]
    /\ calls' = [calls EXCEPT ![k] = 0]
    /\ resp' = [resp EXCEPT ![k] = None]
    /\ out' = [out EXCEPT ![k] = Return(ApiRoleConfigGroup(n, d, t, None))]
    /\ obj' = [obj EXCEPT ![k] = ApiRoleConfigGroup(n, d, t, None)
                                   @@ [a \in RO_ATTR |-> None]]
    /\ UNCHANGED <<store, created>>

create_role_config_groups(k, D) ==
  \E c \in D.clusters, s \in D.services, l \in D.groupLists :
    /\ pc[k] # "waiting"
    /\ ModuleCall(k, Invocation("create_role_config_groups", None, c, s, None, l),
               create_role_config_groups_request(s, l, c))

create_role_config_group(k, D) ==
  \E c \in D.clusters, s \in D.services, n \in D.names,
     d \in D.displayNames, t \in D.roleTypes :
    /\ pc[k] # "waiting"
    /\ ModuleCall(k, Invocation("create_role_config_group", None, c, s, n,
                             [displayName |-> d, roleType |-> t]),
               create_role_config_group_request(s, n, d, t, c))

get_role_config_group(k, D) ==
  \E c \in D.clusters, s \in D.services, n \in D.names :
    /\ pc[k] # "waiting"
    /\ ModuleCall(k, Invocation("get_role_config_group", None, c, s, n, None),
               get_role_config_group_request(s, n, c))

get_all_role_config_groups(k, D) ==
  \E c \in D.clusters, s \in D.services :
    /\ pc[k] # "waiting"
    /\ ModuleCall(k, Invocation("get_all_role_config_groups", None, c, s, None,
                             None),
               get_all_role_config_groups_request(s, c))

update_role_config_group(k, D) ==
  \E c \in D.clusters, s \in D.services, n \in D.names, g \in D.updated :
    /\ pc[k] # "waiting"
    /\ ModuleCall(k, Invocation("update_role_config_group", None, c, s, n, g),
               update_role_config_group_request(s, n, g, c))

delete_role_config_group(k, D) ==
  \E c \in D.clusters, s \in D.services, n \in D.names :
    /\ pc[k] # "waiting"
    /\ ModuleCall(k, Invocation("delete_role_config_group", None, c, s, n, None),
               delete_role_config_group_request(s, n, c))

move_roles(k, D) ==
  \E c \in D.clusters, s \in D.services, n \in D.names, rs \in D.roleLists :
    /\ pc[k] # "waiting"
    /\ ModuleCall(k, Invocation("move_roles", None, c, s, n, rs),
               move_roles_request(s, n, rs, c))

move_roles_to_base_role_config_group(k, D) ==
  \E c \in D.clusters, s \in D.services, rs \in D.roleLists :
    /\ pc[k] # "waiting"
    /\ ModuleCall(k, Invocation("move_roles_to_base_role_config_group", None, c,
                             s, None, rs),
               move_roles_to_base_role_config_group_request(s, rs, c))

\* A get_config that answers from the instance's config attribute and never
\* reaches the transport.
Mut_get_config_cached(k, D) ==
  \E view \in D.views :
    /\ pc[k] # "waiting"
    /\ obj[k] # None
    /\ pc' = [pc EXCEPT ![k] = "done"]
    /\ inv' = [inv EXCEPT ![k] =
                 Invocation("get_config", obj[k], None, None, None, view)]
    /\ req' = [req EXCEPT ![k] = None]
    /\ calls' = [calls EXCEPT ![k] = 0]
    /\ resp' = [resp EXCEPT ![k] = None]
    /\ out' = [out EXCEPT ![k] = Return(obj[k].config)]
    /\ UNCHANGED <<store, created, obj>>

get_config(k, D) ==
  \E view \in D.views :
    /\ pc[k] # "waiting"
    /\ EntityCall(k, Invocation("get_config", obj[k], None, None, None, view),
               get_config_request(obj[k], view))

update_config(k, D) ==
  \E config \in D.configs :
    /\ pc[k] # "waiting"
    /\ EntityCall(k, Invocation("update_config", obj[k], None, None, None, config),
               update_config_request(obj[k], config))

get_all_roles(k, D) ==
  /\ pc[k] # "waiting"
  /\ EntityCall(k, Invocation("get_all_roles", obj[k], None, None, None, None),
             get_all_roles_request(obj[k]))

entity_move_roles(k, D) ==
  \E roles \in D.roleLists :
    /\ pc[k] # "waiting"
    /\ EntityCall(k, Invocation("entity_move_roles", obj[k], None, None, None,
                             roles),
               entity_move_roles_request(obj[k], roles))

(* ------------------------------------------------------------------ *)
(* The transport call ends: the function decodes the body and returns, *)
(* or the transport's error leaves the function.                       *)
(* ------------------------------------------------------------------ *)
\* The rest of each function after its transport call.
Decode(i, body) ==
  CASE i.op = "create_role_config_groups" ->
         create_role_config_groups_return(body)
    [] i.op = "create_role_config_group" ->
         create_role_config_group_return(body)
    [] i.op = "get_role_config_group" -> _get_role_config_group_return(body)
    [] i.op = "get_all_role_config_groups" ->
         get_all_role_config_groups_return(body)
    [] i.op = "update_role_config_group" ->
         update_role_config_group_return(body)
    [] i.op = "delete_role_config_group" ->
         delete_role_config_group_return(body)
    [] i.op = "move_roles" -> move_roles_return(body)
    [] i.op = "move_roles_to_base_role_config_group" ->
         move_roles_to_base_role_config_group_return(body)
    [] i.op = "get_config" -> get_config_return(i.arg, body)
    [] i.op = "update_config" -> update_config_return(body)
    [] i.op = "get_all_roles" -> get_all_roles_return(body)
    [] i.op = "entity_move_roles" -> move_roles_return(body)

\* A wrapper that turns every transport error into one of its own.
Mut_translate_error(e) == Raise("ApiException")

\* No function has a try/except around its transport call.
Propagate(e) == Raise(e)

\* Methods that keep the config they fetched or sent on the instance.
Mut_SelfAfter_caches(op, self, result) ==
  IF op \in {"get_config", "update_config"} /\ result.kind = "return"
    THEN [self EXCEPT !.config = result.val]
    ELSE self

\* The instance a method was called on, after the method: no method assigns
\* to an attribute of self.
SelfAfter(op, self, result) == self

\* The group the caller holds once invocation i has ended with result o.
Held(i, self, o) ==
  IF i.op \in EntityOps THEN SelfAfter(i.op, self, o)
  ELSE IF i.op \in GroupOps /\ o.kind = "return" THEN o.val
  ELSE None

\* History: the create_role_config_group calls whose group is still stored
\* as posted (nothing has written or deleted its path since).
CreatedAfter(i, r, st, st2) ==
  LET changed == {x \in StoreKeys : Get(st, x) # Get(st2, x)}
      kept    == {c \in created : c.key \notin changed}
  IN  IF i.op = "create_role_config_group"
        THEN {c \in kept : c.key # <<r.path, Fmt(i.name)>>}
               \cup {[cluster |-> i.cluster, service |-> i.service,
                      name |-> i.name, displayName |-> i.arg.displayName,
                      roleType |-> i.arg.roleType,
                      key |-> <<r.path, Fmt(i.name)>>]}
        ELSE kept

TransportReturns(k, D) ==
  /\ pc[k] = "waiting"
  /\ \E h \in Handle(req[k], store, D) :
       /\ h.ok
       /\ resp' = [resp EXCEPT ![k] = [ok |-> TRUE, body |-> h.body]]
       /\ store' = h.store
       /\ created' = CreatedAfter(inv[k], req[k], store, h.store)
       /\ out' = [out EXCEPT ![k] = Decode(inv[k], h.body)]
       /\ obj' = [obj EXCEPT ![k] = Held(inv[k], obj[k], Decode(inv[k], h.body))]
  /\ pc' = [pc EXCEPT ![k] = "done"]
  /\ UNCHANGED <<inv, req, calls>>

TransportRaises(k, D) ==
  /\ pc[k] = "waiting"
  /\ \E e \in D.errors \cup {h.err : h \in {x \in Handle(req[k], store, D) : ~x.ok}} :
       /\ resp' = [resp EXCEPT ![k] = Refuse(e)]
       /\ out' = [out EXCEPT ![k] = Propagate(e)]
       /\ obj' = [obj EXCEPT ![k] = Held(inv[k], obj[k], Propagate(e))]
  /\ pc' = [pc EXCEPT ![k] = "done"]
  /\ UNCHANGED <<inv, req, calls, store, created>>

\* One step of caller k with inputs D.
Step(k, D) ==
  \/ ApiRoleConfigGroup_init(k, D)
  \/ create_role_config_groups(k, D)
  \/ create_role_config_group(k, D)
  \/ get_role_config_group(k, D)
  \/ get_all_role_config_groups(k, D)
  \/ update_role_config_group(k, D)
  \/ delete_role_config_group(k, D)
  \/ move_roles(k, D)
  \/ move_roles_to_base_role_config_group(k, D)
  \/ get_config(k, D)
  \/ update_config(k, D)
  \/ get_all_roles(k, D)
  \/ entity_move_roles(k, D)
  \/ TransportReturns(k, D)
  \/ TransportRaises(k, D)

\* One caller at a time.
Next ==
  \/ Step("a", MainInputs)
  \/ get_role_config_group("a", WideInputs)
  \/ get_all_role_config_groups("a", WideInputs)

Spec == Init /\ [][Next]_vars

\* Two callers whose invocations interleave at the transport.
ConcurrentNext == \E k \in Callers : Step(k, ConcurrentInputs)

ConcurrentSpec == Init /\ [][ConcurrentNext]_vars

(* ------------------------------------------------------------------ *)
(* Properties.                                                         *)
(* ------------------------------------------------------------------ *)
\* The collection path as the API lays it out.
ExpectedCollection(cluster, service) ==
  IF cluster = None \/ cluster = Str("")
    THEN "/cm/service/roleConfigGroups"
    ELSE "/clusters/" \o cluster.s \o "/services/" \o service.s
           \o "/roleConfigGroups"

ExpectedSingleton(cluster, service, name) ==
  ExpectedCollection(cluster, service) \o "/" \o name.s

\* The caller's invocation has reached the transport.
Sent(k) == pc[k] # "idle" /\ req[k] # None

Ended(k) == pc[k] = "done"

Answered(k) == Ended(k) /\ resp[k] # None /\ resp[k].ok

Failed(k) == Ended(k) /\ resp[k] # None /\ ~resp[k].ok

\* C1: the collection path is the cluster-scoped template filled with the
\* cluster and service names when the cluster name is non-empty, and the
\* fixed cluster-management path when it is empty or None, whatever the
\* service; the singleton path is the collection path, "/" and the name.
C1_Paths ==
  \A k \in Callers :
    Sent(k) =>
      /\ inv[k].op = "get_all_role_config_groups" =>
           /\ req[k].path = ExpectedCollection(inv[k].cluster, inv[k].service)
           /\ inv[k].cluster \in {None, Str("")} =>
                req[k].path = "/cm/service/roleConfigGroups"
           /\ inv[k].cluster = Str("c1") /\ inv[k].service = Str("mgmt") =>
                req[k].path = "/clusters/c1/services/mgmt/roleConfigGroups"
      /\ inv[k].op = "get_role_config_group" =>
           /\ req[k].path =
                ExpectedSingleton(inv[k].cluster, inv[k].service, inv[k].name)
           /\ inv[k].cluster = Str("c1") /\ inv[k].service = Str("hdfs")
                /\ inv[k].name = Str("g2") =>
                req[k].path = "/clusters/c1/services/hdfs/roleConfigGroups/g2"

\* C1 witness: a fetch by name with the empty cluster name has been sent to
\* the fixed path, with a service name that does not appear in it.
C1_Witness ==
  /\ Sent("a")
  /\ inv["a"].op = "get_role_config_group"
  /\ inv["a"].cluster = Str("")
  /\ inv["a"].service = Str("mgmt")
  /\ req["a"].path = "/cm/service/roleConfigGroups/g2"

PublicOps == ModuleOps \cup EntityOps

\* C2 as stated: every invocation of a public operation issues exactly one
\* transport call, never zero and never more.
C2_ExactlyOneCall ==
  \A k \in Callers :
    (Ended(k) /\ inv[k].op \in PublicOps) => calls[k] = 1

\* C2 as amended: no invocation issues more than one transport call; every
\* module function issues exactly one, and so does every entity method on an
\* instance whose serviceRef is set; an entity method on an instance without
\* a serviceRef raises AttributeError before it reaches the transport.
\* create_role_config_group's one call is the batch call on a one-group list.
C2_AtMostOneCall ==
  \A k \in Callers :
    (pc[k] # "idle" /\ inv[k].op \in PublicOps) =>
      /\ calls[k] <= 1
      /\ IF inv[k].op \in EntityOps /\ inv[k].self.serviceRef = None
           THEN /\ calls[k] = 0
                /\ req[k] = None
                /\ resp[k] = None
                /\ out[k] = Raise("AttributeError")
           ELSE calls[k] = 1 /\ req[k] # None
      /\ inv[k].op = "create_role_config_group" =>
           /\ req[k].verb = "POST"
           /\ Len(json_loads(req[k].data)[LIST_KEY]) = 1

\* C2 witness: a method of a group with a serviceRef has ended after one
\* transport call.
C2_Witness ==
  /\ Answered("a")
  /\ inv["a"].op = "get_config"
  /\ inv["a"].self.serviceRef # None
  /\ calls["a"] = 1

MoveOps ==
  {"move_roles", "move_roles_to_base_role_config_group", "entity_move_roles"}

NamesOf(list) == {list[i].name : i \in DOMAIN list}

Range(list) == {list[i] : i \in DOMAIN list}

\* C3 as stated: whatever the transport answers, the roles returned by a move
\* are among the roles requested.
C3_ReturnedAmongRequested ==
  \A k \in Callers :
    (Answered(k) /\ inv[k].op \in MoveOps /\ out[k].kind = "return") =>
      NamesOf(out[k].val) \subseteq Range(inv[k].arg)

\* C3 as amended: a move returns exactly the roles of the transport's answer,
\* in its order, and raises nothing; so the result is among the requested
\* roles whenever the answer is, and an answer with fewer roles than
\* requested reaches the caller as it is.
C3_ReturnedAsAnswered ==
  \A k \in Callers :
    (Answered(k) /\ inv[k].op \in MoveOps) =>
      LET items == resp[k].body[LIST_KEY]
      IN  /\ out[k].kind = "return"
          /\ Len(out[k].val) = Len(items)
          /\ \A i \in DOMAIN items : out[k].val[i].name = items[i].name
          /\ NamesOf(items) \subseteq Range(inv[k].arg) =>
               NamesOf(out[k].val) \subseteq Range(inv[k].arg)

\* C3 witness: two roles were requested and the transport answered with one
\* of them, which is what the caller got.
C3_Witness ==
  /\ Answered("a")
  /\ inv["a"].op = "move_roles"
  /\ inv["a"].arg = <<"r1", "r2">>
  /\ out["a"].kind = "return"
  /\ NamesOf(out["a"].val) = {"r2"}

\* Caller k's transport call ends in this step.
Ends(k) == pc[k] = "waiting" /\ pc'[k] = "done"

\* The create_role_config_group calls still stored as posted that were made
\* with the cluster, service and name of invocation i.
CreatedFor(i) ==
  {c \in created :
     c.cluster = i.cluster /\ c.service = i.service /\ c.name = i.name}

\* C4: create_role_config_group(n, d, t) posts a one-group list with exactly
\* n, d and t to the collection path, and a later get_role_config_group(n) on
\* the same service and cluster reads the singleton path under that
\* collection and returns a group with name n, displayName d, roleType t,
\* unless the transport call itself fails.
C4_CreateThenGet ==
  [][\A k \in Callers :
       /\ (pc'[k] = "waiting" /\ inv'[k].op = "create_role_config_group") =>
            /\ req'[k].verb = "POST"
            /\ req'[k].path = ExpectedCollection(inv'[k].cluster,
                                                 inv'[k].service)
            /\ json_loads(req'[k].data) =
                 [items |-> <<[name |-> inv'[k].name,
                               displayName |-> inv'[k].arg.displayName,
                               roleType |-> inv'[k].arg.roleType,
                               config |-> None]>>]
       /\ (Ends(k) /\ inv[k].op = "get_role_config_group") =>
            \A c \in CreatedFor(inv[k]) :
              /\ req[k].verb = "GET"
              /\ req[k].path = PathOf(c.key)
              /\ (resp'[k].ok \/ resp'[k].err = NotFound) =>
                   /\ out'[k].kind = "return"
                   /\ out'[k].val.name = c.name
                   /\ out'[k].val.displayName = c.displayName
                   /\ out'[k].val.roleType = c.roleType
    ]_vars

\* C4 witness: a get has returned the group that an earlier create with the
\* same arguments posted.
C4_Witness ==
  /\ Answered("a")
  /\ inv["a"].op = "get_role_config_group"
  /\ CreatedFor(inv["a"]) # {}
  /\ out["a"].kind = "return"
  /\ out["a"].val.displayName = Str("DN group")
  /\ out["a"].val.serviceRef = None

\* C5: when the transport call of an operation fails, the operation raises
\* the transport's own error and returns nothing, has called the transport
\* once, and leaves the instance it was called on as it was.
C5_ErrorsPropagate ==
  \A k \in Callers :
    Failed(k) =>
      /\ out[k] = [kind |-> "raise", err |-> resp[k].err]
      /\ calls[k] = 1
      /\ inv[k].op \in EntityOps => obj[k] = inv[k].self

\* C5 witness: a method of a held group has ended with the transport's
\* timeout.
C5_Witness ==
  /\ Failed("a")
  /\ inv["a"].op = "update_config"
  /\ resp["a"].err = "Timeout"
  /\ out["a"].kind = "raise"

ConfigPathOf(self) ==
  ExpectedSingleton(self.serviceRef.clusterName, self.serviceRef.serviceName,
                    self.name) \o "/config"

IsPlain(v) == v = None \/ ("py" \in DOMAIN v /\ v.py = "str")

IsStructured(v) == v # None /\ "cls" \in DOMAIN v /\ v.cls = "ApiConfig"

\* C6: get_config(view) is a GET on the group's /config path; it carries no
\* parameters when view is None and view=<view> for "summary" and "full";
\* the values of the result are plain strings for None and "summary" and
\* structured config objects for "full", one per key of the response.
C6_GetConfigView ==
  \A k \in Callers :
    (Sent(k) /\ inv[k].op = "get_config") =>
      LET view == inv[k].arg
      IN  /\ req[k].verb = "GET"
          /\ req[k].path = ConfigPathOf(inv[k].self)
          /\ req[k].data = None
          /\ view = None => req[k].params = None
          /\ view \in {Str("summary"), Str("full")} =>
               req[k].params = [view |-> view]
          /\ Answered(k) =>
               LET items == resp[k].body[LIST_KEY]
                   keys  == {items[i].name : i \in DOMAIN items}
               IN  /\ out[k].kind = "return"
                   /\ DOMAIN out[k].val = keys
                   /\ view \in {None, Str("summary")} =>
                        \A i \in DOMAIN items :
                          /\ IsPlain(out[k].val[items[i].name])
                          /\ out[k].val[items[i].name] = Get(items[i], "value")
                   /\ view = Str("full") =>
                        \A i \in DOMAIN items :
                          /\ IsStructured(out[k].val[items[i].name])
                          /\ out[k].val[items[i].name].value
                               = Get(items[i], "value")

\* C6 witness: the one-item body {"items": [{"name": "k", "value": "v"}]} has
\* been decoded for the full view.
C6_Witness ==
  /\ Answered("a")
  /\ inv["a"].op = "get_config"
  /\ inv["a"].arg = Str("full")
  /\ resp["a"].body = SummaryBody
  /\ out["a"].val["k"].cls = "ApiConfig"

\* C7: update_config(config) is one PUT on the group's /config path whose
\* body holds exactly the keys of config with their values, and it returns
\* the mapping decoded from the whole response, as plain strings.
C7_UpdateConfig ==
  \A k \in Callers :
    (Sent(k) /\ inv[k].op = "update_config") =>
      LET config == inv[k].arg
          sent   == json_loads(req[k].data)[LIST_KEY]
      IN  /\ req[k].verb = "PUT"
          /\ req[k].path = ConfigPathOf(inv[k].self)
          /\ req[k].params = None
          /\ calls[k] = 1
          /\ {sent[i].name : i \in DOMAIN sent} = DOMAIN config
          /\ Len(sent) = Cardinality(DOMAIN config)
          /\ \A i \in DOMAIN sent :
               sent[i] = [name |-> sent[i].name, value |-> config[sent[i].name]]
          /\ Answered(k) =>
               LET items == resp[k].body[LIST_KEY]
               IN  /\ out[k].kind = "return"
                   /\ DOMAIN out[k].val = {items[i].name : i \in DOMAIN items}
                   /\ \A i \in DOMAIN items :
                        out[k].val[items[i].name] = Get(items[i], "value")

\* C7 witness: one key was sent from a group whose own config holds another
\* key, and the result holds a key that was not sent.
C7_Witness ==
  /\ Answered("a")
  /\ inv["a"].op = "update_config"
  /\ DOMAIN inv["a"].arg = {"k"}
  /\ inv["a"].self.config # None
  /\ DOMAIN out["a"].val = {"k", "k2"}

\* The group stored at a path, or None.
StoredAt(st, path) ==
  LET keys == {x \in DOMAIN st : PathOf(x) = path}
  IN  IF keys = {} THEN None ELSE st[CHOOSE x \in keys : TRUE]

\* C8: delete_role_config_group returns the group the transport reports as
\* it was just before the deletion, attribute by attribute, never None; and a
\* get of a name the transport no longer holds ends with the transport's
\* error, not with a value made up locally.
C8_DeleteReturnsBefore ==
  [][\A k \in Callers :
       /\ (Ends(k) /\ inv[k].op = "delete_role_config_group" /\ resp'[k].ok) =>
            LET before == StoredAt(store, req[k].path)
            IN  /\ before # None
                /\ resp'[k].body = before
                /\ out'[k].kind = "return"
                /\ out'[k].val # None
                /\ out'[k].val =
                     [name |-> before.name, displayName |-> before.displayName,
                      roleType |-> before.roleType,
                      config |-> Get(before, "config"),
                      base |-> Get(before, "base"),
                      serviceRef |-> Get(before, "serviceRef")]
                /\ StoredAt(store', req[k].path) = None
       /\ (Ends(k) /\ inv[k].op = "get_role_config_group"
             /\ StoredAt(store, req[k].path) = None) =>
            /\ ~resp'[k].ok
            /\ out'[k] = [kind |-> "raise", err |-> resp'[k].err]
            /\ calls'[k] = 1
    ]_vars

\* C8 witness: the delete of a group the server created has returned it with
\* its read-only attributes, and the path is gone.
C8_Witness ==
  /\ Answered("a")
  /\ inv["a"].op = "delete_role_config_group"
  /\ out["a"].kind = "return"
  /\ out["a"].val.base = Bool(TRUE)
  /\ out["a"].val.serviceRef # None
  /\ StoredAt(store, req["a"].path) = None

RefSingleton(self) ==
  ExpectedSingleton(self.serviceRef.clusterName, self.serviceRef.serviceName,
                    self.name)

\* C9: every operation sends its request with a fixed verb to a fixed path:
\* create POSTs to the collection, get-all GETs it, get/update/delete
\* GET/PUT/DELETE the singleton named by the name argument, move_roles PUTs
\* {"items": role_names} to singleton/roles, the move to the base groups PUTs
\* it to collection/roles, the entity methods use singleton/config and
\* singleton/roles of the instance, and the entity's move_roles sends what
\* the module's move_roles sends for the instance's name, service and cluster.
C9_VerbsAndPaths ==
  \A k \in Callers :
    Sent(k) =>
      LET i    == inv[k]
          r    == req[k]
          coll == ExpectedCollection(i.cluster, i.service)
      IN  /\ i.op \in {"create_role_config_groups", "create_role_config_group"}
               => r.verb = "POST" /\ r.path = coll
          /\ i.op = "get_all_role_config_groups"
               => r.verb = "GET" /\ r.path = coll /\ r.data = None
          /\ i.op = "get_role_config_group"
               => r.verb = "GET" /\ r.path = coll \o "/" \o i.name.s
                    /\ r.data = None
          /\ i.op = "update_role_config_group"
               => /\ r.verb = "PUT"
                  /\ r.path = coll \o "/" \o i.name.s
                  /\ json_loads(r.data).name = i.arg.name
          /\ i.op = "delete_role_config_group"
               => r.verb = "DELETE" /\ r.path = coll \o "/" \o i.name.s
                    /\ r.data = None
          /\ i.op = "move_roles"
               => /\ r.verb = "PUT"
                  /\ r.path = coll \o "/" \o i.name.s \o "/roles"
                  /\ json_loads(r.data) = [items |-> i.arg]
          /\ i.op = "move_roles_to_base_role_config_group"
               => /\ r.verb = "PUT"
                  /\ r.path = coll \o "/roles"
                  /\ json_loads(r.data) = [items |-> i.arg]
          /\ i.op = "get_config"
               => r.verb = "GET" /\ r.path = RefSingleton(i.self) \o "/config"
          /\ i.op = "update_config"
               => r.verb = "PUT" /\ r.path = RefSingleton(i.self) \o "/config"
          /\ i.op = "get_all_roles"
               => r.verb = "GET" /\ r.path = RefSingleton(i.self) \o "/roles"
                    /\ r.data = None
          /\ i.op = "entity_move_roles"
               => /\ r.verb = "PUT"
                  /\ r.path = RefSingleton(i.self) \o "/roles"
                  /\ json_loads(r.data) = [items |-> i.arg]
                  /\ r = move_roles_request(i.self.serviceRef.serviceName,
                                            i.self.name, i.arg,
                                            i.self.serviceRef.clusterName)
          /\ i.op # "get_config" => r.params = None

\* C9 witness: an update has been sent to the singleton of its name argument
\* with a group of another name in its body.
C9_Witness ==
  /\ Sent("a")
  /\ inv["a"].op = "update_role_config_group"
  /\ inv["a"].name = Str("g1")
  /\ json_loads(req["a"].data).name = Str("g2")
  /\ req["a"].path = "/clusters/default/services/hdfs/roleConfigGroups/g1"

\* What caller k has of its own: its invocation, request, response, result
\* and the group it holds.
Local(k) == <<pc[k], inv[k], req[k], calls[k], resp[k], out[k], obj[k]>>

\* C10: no method writes an attribute of the instance it is called on; each
\* caller's result is the decoding of the transport's answer to its own
\* request (or the error of its own call); and a step of one caller changes
\* nothing another caller has, however the two callers' calls interleave.
C10_NoSharedState ==
  [][\A k \in Callers :
       /\ (pc'[k] # "idle" /\ inv'[k].op \in EntityOps) => obj'[k] = inv'[k].self
       /\ (Ends(k) /\ resp'[k].ok) => out'[k] = Decode(inv[k], resp'[k].body)
       /\ (Ends(k) /\ ~resp'[k].ok) =>
            out'[k] = [kind |-> "raise", err |-> resp'[k].err]
       /\ \A j \in Callers \ {k} :
            (pc'[j] # pc[j] \/ inv'[j] # inv[j]) =>
              <<pc'[k], inv'[k], req'[k], calls'[k], resp'[k], out'[k], obj'[k]>>
                = Local(k)
    ]_vars

\* C10 witness: both callers have fetched a config through the same group
\* and got different answers, and the group each holds still has the config
\* attribute it had.
C10_Witness ==
  /\ Answered("a") /\ Answered("b")
  /\ inv["a"].op = "get_config" /\ inv["b"].op = "get_config"
  /\ inv["a"].self = inv["b"].self
  /\ resp["a"].body # resp["b"].body
  /\ out["a"].val # out["b"].val
  /\ obj["a"] = inv["a"].self /\ obj["b"] = inv["b"].self

=============================================================================
